---- MODULE Spec2Model ----
(***************************************************************************)
(* Model of pkg/steps/multi_stage.go: the multi-stage test step.  One      *)
(* multiStageTestStep runs run(): environment resolution, access           *)
(* provisioning (shared secret, mirrored credentials, RBAC), then the Pre, *)
(* Test and Post phases, each a sequence of pods run one after another.    *)
(***************************************************************************)
EXTENDS Integers, Sequences, FiniteSets, TLC

(* ---- bounds of the model ---------------------------------------------- *)

\* largest number of declared steps of one test, all phases together
MaxSteps == 3

(* ---- names fixed by the program --------------------------------------- *)

MultiStageTestLabel == "ci.openshift.io/multi-stage-test"
DefaultLeaseEnv == "LEASED_RESOURCE"
envForProfile == <<"RELEASE_IMAGE_LATEST", DefaultLeaseEnv, "IMAGE_FORMAT">>

\* s.name and s.jobSpec.Namespace() of the step under test
TestName == "e2e"
TestNamespace == "ci-op-1"

\* a *bool of the configuration: nil, or a pointer to false or true
BoolPtr == {"nil", "false", "true"}
IsSet(p) == p = "true"

\* error values: nil is the empty aggregate
Nil == <<>>
NewAggregate(errlist) == errlist

Phases == {"pre", "test", "post"}

VARIABLES
    profile,            \* s.profile, "" when the test has no cluster profile
    leases,             \* s.leases: sequence of env names
    pre, test, post,    \* s.pre, s.test, s.post: sequences of steps
    allowSkipOnSuccess, \* s.allowSkipOnSuccess
    subTests,           \* s.subTests: one entry per collected pod, in order
    objects,            \* object store, test namespace: name -> content
    clusterPods,        \* pods of the test namespace: name -> [Label, Phase]
    cancelled,          \* the caller's context is done
    pc,                 \* position of run()
    phase,              \* phase whose runSteps is executing
    env,                \* result of environment()
    toCreate,           \* createCredentials: mirrored name -> source credential
    errs,               \* run(): var errs []error
    pods,               \* runSteps: pods returned by generatePods
    i,                  \* position of the loop in progress (setupRBAC, runPods)
    podErrs,            \* runPods: var errs []error
    result,             \* what run() returned: [returned, err]
    calls,              \* history: number of runSteps invocations per phase
    generated,          \* history: what generatePods returned per phase
    submitted,          \* history: pods handed to createOrRestartPod, in order
    waited,             \* history: returns of waitForPodCompletion, in order
    bulkDeletes,        \* history: DeleteAllOf calls issued
    completed,          \* history: provisioning operations that succeeded
    cancelPhase,        \* history: where run() was when the context was cancelled
    pass,               \* which invocation of the access provisioning is executing
    firstObjects,       \* history: the object store when the first invocation returned
    others,             \* history: the store operations other runs made, in order
    requires            \* what Requires() returned

config == <<profile, leases, pre, test, post, allowSkipOnSuccess>>
history == <<calls, generated, submitted, waited, bulkDeletes, completed, cancelPhase>>
again == <<pass, firstObjects, others, requires>>
vars == <<config, again, subTests, objects, clusterPods, cancelled, pc, phase, env,
          toCreate, errs, pods, i, podErrs, result, history>>

(* ---- configuration ------------------------------------------------------ *)

\* api.CredentialReference: a secret of a donor namespace
PullCredential == [Namespace |-> "test-credentials", Name |-> "pull-secret"]

\* api.LiteralTestStep, the fields run() reads
LiteralTestStep(as, optional, credentials) ==
    [As |-> as, OptionalOnSuccess |-> optional, Credentials |-> credentials]

profileSecretName == TestName \o "-cluster-profile"

\* keys of the object store: kind/name inside the test namespace
SecretKey(name) == "Secret/" \o name
RBACKeys == <<"ServiceAccount/" \o TestName, "Role/" \o TestName,
              "RoleBinding/" \o TestName>>

\* mutant: the mirrored copy keeps the name of its source
MirroredNameOfNameOnly(credential) == credential.Name

\* name of the mirrored copy of a credential
MirroredName(credential) == credential.Namespace \o "-" \o credential.Name

RECURSIVE Flatten(_)
Flatten(seqs) ==
    IF seqs = <<>> THEN <<>> ELSE Head(seqs) \o Flatten(Tail(seqs))

StepsOf(p) == IF p = "pre" THEN pre ELSE IF p = "test" THEN test ELSE post

(* ---- object store (s.client) -------------------------------------------- *)

Exists(key) == key \in DOMAIN objects

\* mutant: the delete leaves the object in the store
RemoveNothing(store, key) == store

Remove(store, key) == [k \in DOMAIN store \ {key} |-> store[k]]
Put(store, key, content) == [k \in DOMAIN store \cup {key} |->
                                IF k = key THEN content ELSE store[k]]

\* outcome of client.Create / client.Delete on the store; fault is an
\* error of the API server that is neither "already exists" nor "not found"
CreateOutcome(key, fault) ==
    IF fault THEN "other" ELSE IF Exists(key) THEN "exists" ELSE "ok"
DeleteOutcome(key, fault) ==
    IF fault THEN "other" ELSE IF Exists(key) THEN "ok" ELSE "notfound"

(* ---- run(): returns ------------------------------------------------------ *)

\* mutant: the error is recorded and run() goes on to the phases
AbortAndGoOn(err) ==
    /\ result' = [returned |-> FALSE, fatal |-> TRUE, err |-> err]
    /\ pc' = "runSteps"

\* run() returns err before any phase ran (lines 126-138)
Abort(err) ==
    /\ result' = [returned |-> TRUE, fatal |-> TRUE, err |-> err]
    /\ pc' = "done"

(* ---- environment() ------------------------------------------------------- *)

\* the lookups environment() makes, in order
EnvironmentCalls ==
    [k \in 1..Len(leases) |-> [kind |-> "param", key |-> leases[k]]]
    \o (IF profile # ""
        THEN <<[kind |-> "secret", key |-> profileSecretName]>>
             \o [k \in 1..Len(envForProfile) |-> [kind |-> "param", key |-> envForProfile[k]]]
             \o <<[kind |-> "optionalOperator", key |-> "OO_INDEX"]>>
        ELSE <<>>)

\* position of the profile secret lookup, 0 when there is none
SecretCallAt == IF profile # "" THEN Len(leases) + 1 ELSE 0

\* the first lookup that fails, 0 when none does: failAt is the lookup the parameter
\* store or the API server fails (0: none), the profile secret must exist
FirstFailure(failAt) ==
    LET missing == SecretCallAt # 0 /\ ~Exists(SecretKey(profileSecretName))
    IN  IF missing /\ (failAt = 0 \/ failAt > SecretCallAt) THEN SecretCallAt ELSE failAt

\* names of the variables environment() returns when nothing failed: the leases,
\* then the profile parameters (resolveOptionalOperator finds no operator)
EnvironmentVars ==
    LET kept == SelectSeq(EnvironmentCalls, LAMBDA c : c.kind = "param")
    IN  [k \in 1..Len(kept) |-> kept[k].key]

Environment ==
    /\ pc = "environment"
    /\ \E failAt \in 0..Len(EnvironmentCalls) :
          LET f == FirstFailure(failAt) IN
          IF f # 0
          THEN /\ Abort(<<[op |-> "environment", failed |-> EnvironmentCalls[f].kind,
                         out |-> "other"]>>)
               /\ UNCHANGED <<env, completed>>
          ELSE /\ env' = EnvironmentVars
               /\ completed' = Append(completed, "environment")
               /\ pc' = "createSecret"
               /\ UNCHANGED result
    /\ UNCHANGED <<config, again, subTests, objects, clusterPods, cancelled, phase, toCreate,
                   errs, pods, i, podErrs, calls, generated, submitted, waited,
                   bulkDeletes, cancelPhase>>

(* ---- createSecret() ------------------------------------------------------ *)

\* client.Delete of the shared secret (lines 283-286)
CreateSecretDelete ==
    /\ pc = "createSecret"
    /\ \E fault \in BOOLEAN :
          LET out == DeleteOutcome(SecretKey(TestName), fault) IN
          IF out \notin {"ok", "notfound"}
          THEN /\ Abort(<<[op |-> "createSecret", failed |-> "delete", out |-> out]>>)
               /\ UNCHANGED objects
          ELSE /\ objects' = Remove(objects, SecretKey(TestName))
               /\ pc' = "createSecretCreate"
               /\ UNCHANGED result
    /\ UNCHANGED <<config, again, subTests, clusterPods, cancelled, phase, env, toCreate,
                   errs, pods, i, podErrs, history>>

\* mutant: createSecret treats an already-exists outcome as success
CreateSecretCreateTolerant ==
    /\ pc = "createSecretCreate"
    /\ \E fault \in BOOLEAN :
          LET out == CreateOutcome(SecretKey(TestName), fault) IN
          IF out \notin {"ok", "exists"}
          THEN /\ Abort(<<[op |-> "createSecret", failed |-> "create", out |-> out]>>)
               /\ UNCHANGED <<objects, completed>>
          ELSE /\ objects' = IF out = "ok" THEN Put(objects, SecretKey(TestName), "empty")
                             ELSE objects
               /\ completed' = Append(completed, "createSecret")
               /\ pc' = "createCredentials"
               /\ UNCHANGED result
    /\ UNCHANGED <<config, again, subTests, clusterPods, cancelled, phase, env, toCreate,
                   errs, pods, i, podErrs, calls, generated, submitted, waited,
                   bulkDeletes, cancelPhase>>

\* client.Create of the empty shared secret (line 287)
CreateSecretCreate ==
    /\ pc = "createSecretCreate"
    /\ \E fault \in BOOLEAN :
          LET out == CreateOutcome(SecretKey(TestName), fault) IN
          IF out # "ok"
          THEN /\ Abort(<<[op |-> "createSecret", failed |-> "create", out |-> out]>>)
               /\ UNCHANGED <<objects, completed>>
          ELSE /\ objects' = Put(objects, SecretKey(TestName), "empty")
               /\ completed' = Append(completed, "createSecret")
               /\ pc' = "createCredentials"
               /\ UNCHANGED result
    /\ UNCHANGED <<config, again, subTests, clusterPods, cancelled, phase, env, toCreate,
                   errs, pods, i, podErrs, calls, generated, submitted, waited,
                   bulkDeletes, cancelPhase>>

(* ---- createCredentials() ------------------------------------------------- *)

\* every credential reference of every step, pre then test then post (line 293)
AllCredentials ==
    LET steps == pre \o (test \o post)
    IN  Flatten([k \in 1..Len(steps) |-> steps[k].Credentials])

\* toCreate after the read loop: a later credential of the same mirrored name
\* replaces an earlier one (line 304)
RECURSIVE CollectToCreate(_, _)
CollectToCreate(credentials, acc) ==
    IF credentials = <<>> THEN acc
    ELSE CollectToCreate(Tail(credentials),
                         Put(acc, MirroredName(Head(credentials)), Head(credentials)))

\* the read loop (lines 292-315); a source credential is read from its donor
\* namespace, where the read may fail
CreateCredentialsRead ==
    /\ pc = "createCredentials"
    /\ \E failAt \in 0..Len(AllCredentials) :
          IF failAt # 0
          THEN /\ Abort(<<[op |-> "createCredentials", failed |-> "read", out |-> "other"]>>)
               /\ UNCHANGED <<toCreate, completed>>
          ELSE LET collected == CollectToCreate(AllCredentials, <<>>) IN
               /\ toCreate' = collected
               /\ IF DOMAIN collected = {}
                  THEN /\ completed' = Append(completed, "createCredentials")
                       /\ pc' = "setupRBAC"
                  ELSE /\ pc' = "createCredentialsCreate"
                       /\ UNCHANGED completed
               /\ UNCHANGED result
    /\ i' = 1
    /\ UNCHANGED <<config, again, subTests, objects, clusterPods, cancelled, phase, env,
                   errs, pods, podErrs, calls, generated, submitted, waited,
                   bulkDeletes, cancelPhase>>

\* one pass of the create loop (lines 317-321); a map is ranged over in any order
CreateCredentialsCreate ==
    /\ pc = "createCredentialsCreate"
    /\ \E name \in DOMAIN toCreate, fault \in BOOLEAN :
          LET out == CreateOutcome(SecretKey(name), fault) IN
          IF out \notin {"ok", "exists"}
          THEN /\ Abort(<<[op |-> "createCredentials", failed |-> "create", out |-> out]>>)
               /\ UNCHANGED <<objects, toCreate, completed>>
          ELSE /\ objects' = IF out = "ok"
                             THEN Put(objects, SecretKey(name), toCreate[name])
                             ELSE objects
               /\ toCreate' = Remove(toCreate, name)
               /\ IF DOMAIN toCreate = {name}
                  THEN /\ completed' = Append(completed, "createCredentials")
                       /\ pc' = "setupRBAC"
                  ELSE UNCHANGED <<pc, completed>>
               /\ UNCHANGED result
    /\ UNCHANGED <<config, again, subTests, clusterPods, cancelled, phase, env, errs, pods,
                   i, podErrs, calls, generated, submitted, waited, bulkDeletes,
                   cancelPhase>>

(* ---- setupRBAC() --------------------------------------------------------- *)

\* mutant: setupRBAC ignores every error
checkNothing(out) == TRUE

\* mutant: setupRBAC returns an already-exists error as any other
checkStrict(out) == out = "ok"

\* check of setupRBAC (lines 236-238)
check(out) == out = "ok" \/ out = "exists"

\* the i-th client.Create of setupRBAC (lines 239-248); when the last one
\* succeeded run() goes on to the Pre phase (lines 139-140)
SetupRBAC ==
    /\ pc = "setupRBAC"
    /\ \E fault \in BOOLEAN :
          LET out == CreateOutcome(RBACKeys[i], fault) IN
          IF ~check(out)
          THEN /\ Abort(<<[op |-> "setupRBAC", failed |-> RBACKeys[i], out |-> out]>>)
               /\ UNCHANGED <<objects, i, completed, phase, errs>>
          ELSE /\ objects' = IF out = "ok" THEN Put(objects, RBACKeys[i], "rbac")
                             ELSE objects
               /\ IF i = Len(RBACKeys)
                  THEN /\ completed' = Append(completed, "setupRBAC")
                       /\ pc' = "runSteps"
                       /\ phase' = "pre"
                       /\ errs' = <<>>
                       /\ i' = 1
                  ELSE /\ i' = i + 1
                       /\ UNCHANGED <<pc, completed, phase, errs>>
               /\ UNCHANGED result
    /\ UNCHANGED <<config, again, subTests, clusterPods, cancelled, env, toCreate, pods,
                   podErrs, calls, generated, submitted, waited, bulkDeletes,
                   cancelPhase>>

(* ---- collaborators declared outside this file ---------------------------- *)

\* the context DeleteAllOf receives (line 343): detached from the caller's
cleanupCtx == "cleanup"

\* what waitForPodCompletion can return under ctx: the pod reached a terminal
\* phase, or ctx was cancelled while the pod was still running
WaitOutcomes(ctx) ==
    {"Succeeded", "Failed"} \cup (IF ctx = "caller" /\ cancelled THEN {"cancelled"} ELSE {})

\* the namespace of the pod generateBasePod returns for s.jobSpec (line 379)
BasePodNamespace == TestNamespace

(* ---- generatePods() ------------------------------------------------------ *)

\* mutant: the skip test forgets the earlier failures
SkipStepIgnoringPrevErrs(step, hasPrevErrs) ==
    /\ IsSet(allowSkipOnSuccess)
    /\ IsSet(step.OptionalOnSuccess)

\* the skip test of generatePods (lines 360-362)
SkipStep(step, hasPrevErrs) ==
    /\ IsSet(allowSkipOnSuccess)
    /\ IsSet(step.OptionalOnSuccess)
    /\ ~hasPrevErrs

\* mutant: the pod is labelled with its own name
PodForLabelledByName(step) ==
    [Name |-> TestName \o "-" \o step.As,
     Namespace |-> BasePodNamespace,
     Label |-> [key |-> MultiStageTestLabel, value |-> TestName \o "-" \o step.As],
     ServiceAccountName |-> TestName]

\* the pod generatePods builds for a step (lines 378-388)
PodFor(step) ==
    [Name |-> TestName \o "-" \o step.As,
     Namespace |-> BasePodNamespace,
     Label |-> [key |-> MultiStageTestLabel, value |-> TestName],
     ServiceAccountName |-> TestName]

\* mutant: the first build failure ends the loop and the pods built are dropped
RECURSIVE generatePodsUntilFailure(_, _, _)
generatePodsUntilFailure(steps, hasPrevErrs, failing) ==
    IF steps = <<>> THEN [ret |-> <<>>, err |-> Nil]
    ELSE LET step == Head(steps)
             rest == generatePodsUntilFailure(Tail(steps), hasPrevErrs, failing)
         IN  IF SkipStep(step, hasPrevErrs) THEN rest
             ELSE IF step.As \in failing
                  THEN [ret |-> <<>>,
                        err |-> NewAggregate(<<[kind |-> "build", detail |-> <<step.As>>]>>)]
                  ELSE IF rest.err # Nil THEN rest
                       ELSE [ret |-> <<PodFor(step)>> \o rest.ret, err |-> rest.err]

\* generatePods (lines 355-433): ret and errs after the loop over steps.  failing
\* holds the steps for which resourcesFor, generateBasePod or envForDependencies
\* returns an error
RECURSIVE generatePods(_, _, _)
generatePods(steps, hasPrevErrs, failing) ==
    IF steps = <<>> THEN [ret |-> <<>>, err |-> Nil]
    ELSE LET step == Head(steps)
             rest == generatePods(Tail(steps), hasPrevErrs, failing)
         IN  IF SkipStep(step, hasPrevErrs) THEN rest
             ELSE IF step.As \in failing
                  THEN [ret |-> rest.ret,
                        err |-> NewAggregate(<<[kind |-> "build", detail |-> <<step.As>>]>>
                                            \o rest.err)]
                  ELSE [ret |-> <<PodFor(step)>> \o rest.ret, err |-> rest.err]

\* the steps generatePods tries to build: the ones it does not skip
Buildable(steps, hasPrevErrs) ==
    {steps[k].As : k \in {j \in 1..Len(steps) : ~SkipStep(steps[j], hasPrevErrs)}}

(* ---- run(): the phases (lines 139-148) ----------------------------------- *)

\* mutant: every phase short-circuits
shortCircuitEverywhere(p) == TRUE

\* shortCircuit argument of the runSteps call of a phase
shortCircuit(p) == p \in {"pre", "test"}

\* mutant: Post runs under the caller's context
ctxOfCaller(p) == "caller"

\* ctx argument of the runSteps call of a phase
ctxOf(p) == IF p = "post" THEN "background" ELSE "caller"

\* mutant: no phase is told of an earlier failure
hasPrevErrsNever(p) == FALSE

\* mutant: Test is told that an earlier phase failed
hasPrevErrsForTest(p) == IF p = "pre" THEN FALSE ELSE IF p = "test" THEN TRUE ELSE Len(errs) # 0

\* hasPrevErrs argument of the runSteps call of a phase
hasPrevErrs(p) == IF p = "pre" THEN FALSE ELSE Len(errs) # 0

\* mutant: the select of runSteps takes the ctx.Done() case for every context
IsDoneAlways(ctx) == TRUE

\* ctx.Done() is closed
IsDone(ctx) == ctx = "caller" /\ cancelled

\* mutant: Test runs whether or not Pre failed
NextPhaseTestAfterFailedPre(p, err) ==
    IF p = "pre" THEN "test"
    ELSE IF p = "test" THEN "post"
    ELSE ""

\* mutant: run() returns as soon as Test failed
NextPhaseReturnOnTestFailure(p, err) ==
    IF p = "pre" THEN (IF err # Nil THEN "post" ELSE "test")
    ELSE IF p = "test" THEN (IF err # Nil THEN "" ELSE "post")
    ELSE ""

\* the phase run() goes to when runSteps of phase p returned err; "" is the return
NextPhase(p, err) ==
    IF p = "pre" THEN (IF err # Nil THEN "post" ELSE "test")
    ELSE IF p = "test" THEN "post"
    ELSE ""

\* mutant: run() keeps the first phase error only
RunStepsReturnsFirstOnly(err) ==
    LET recorded == IF err # Nil /\ errs = <<>>
                    THEN Append(errs, [phase |-> phase, err |-> err])
                    ELSE errs
        next == NextPhase(phase, err)
    IN  /\ errs' = recorded
        /\ IF next # ""
           THEN /\ phase' = next
                /\ pc' = "runSteps"
                /\ UNCHANGED result
           ELSE /\ result' = [returned |-> TRUE, fatal |-> FALSE,
                            err |-> NewAggregate(recorded)]
                /\ pc' = "done"
                /\ UNCHANGED phase

\* runSteps of the current phase returns err to run(), which records it and goes on
RunStepsReturns(err) ==
    LET recorded == IF err # Nil THEN Append(errs, [phase |-> phase, err |-> err])
                    ELSE errs
        next == NextPhase(phase, err)
    IN  /\ errs' = recorded
        /\ IF next # ""
           THEN /\ phase' = next
                /\ pc' = "runSteps"
                /\ UNCHANGED result
           ELSE /\ result' = [returned |-> TRUE, fatal |-> FALSE,
                            err |-> NewAggregate(recorded)]
                /\ pc' = "done"
                /\ UNCHANGED phase

(* ---- runSteps() ---------------------------------------------------------- *)

\* history of a phase whose generatePods was not called
NotGenerated ==
    [called |-> FALSE, hasPrevErrs |-> FALSE, failing |-> {}, ret |-> <<>>, err |-> Nil]

\* mutant: runSteps runs the pods that were built although a build failed
RunStepsBeginRunsBuilt ==
    /\ pc = "runSteps"
    /\ calls' = [calls EXCEPT ![phase] = @ + 1]
    /\ \E failing \in SUBSET Buildable(StepsOf(phase), hasPrevErrs(phase)) :
          LET made == generatePods(StepsOf(phase), hasPrevErrs(phase), failing) IN
          /\ generated' = [generated EXCEPT ![phase] =
                              [called |-> TRUE, hasPrevErrs |-> hasPrevErrs(phase),
                               failing |-> failing, ret |-> made.ret, err |-> made.err]]
          /\ IF made.err # Nil /\ made.ret = <<>>
             THEN /\ RunStepsReturns(made.err)
                  /\ UNCHANGED pods
             ELSE /\ pods' = made.ret
                  /\ pc' = IF made.ret = <<>> THEN "select" ELSE "runPod"
                  /\ UNCHANGED <<errs, phase, result>>
    /\ i' = 1
    /\ podErrs' = <<>>
    /\ UNCHANGED <<config, again, subTests, objects, clusterPods, cancelled, env, toCreate,
                   submitted, waited, bulkDeletes, completed, cancelPhase>>

\* runSteps up to the call of runPods (lines 332-337)
RunStepsBegin ==
    /\ pc = "runSteps"
    /\ calls' = [calls EXCEPT ![phase] = @ + 1]
    /\ \E failing \in SUBSET Buildable(StepsOf(phase), hasPrevErrs(phase)) :
          LET made == generatePods(StepsOf(phase), hasPrevErrs(phase), failing) IN
          /\ generated' = [generated EXCEPT ![phase] =
                              [called |-> TRUE, hasPrevErrs |-> hasPrevErrs(phase),
                               failing |-> failing, ret |-> made.ret, err |-> made.err]]
          /\ IF made.err # Nil
             THEN /\ RunStepsReturns(made.err)
                  /\ UNCHANGED pods
             ELSE /\ pods' = made.ret
                  /\ pc' = IF made.ret = <<>> THEN "select" ELSE "runPod"
                  /\ UNCHANGED <<errs, phase, result>>
    /\ i' = 1
    /\ podErrs' = <<>>
    /\ UNCHANGED <<config, again, subTests, objects, clusterPods, cancelled, env, toCreate,
                   submitted, waited, bulkDeletes, completed, cancelPhase>>

\* pods of the test namespace that carry the label of this test
Labelled(store) ==
    {n \in DOMAIN store : store[n].Label = [key |-> MultiStageTestLabel, value |-> TestName]}

\* s.client.DeleteAllOf with the label selector (line 343)
DeleteAllOf(store) == [n \in DOMAIN store \ Labelled(store) |-> store[n]]

\* errs of runSteps after runPods returned (lines 336-339)
ErrsOfRunPods ==
    IF podErrs # <<>> THEN <<[kind |-> "pods", detail |-> NewAggregate(podErrs)]>>
    ELSE <<>>

\* mutant: "cancelled" is reported only when no pod error was recorded
ErrsWhenCancelledReplacing(fromPods, out) ==
    (IF out = "other" THEN <<[kind |-> "delete", detail |-> <<>>]>> ELSE <<>>)
    \o (IF fromPods # <<>> THEN fromPods ELSE <<[kind |-> "cancelled", detail |-> <<>>]>>)

\* errs of runSteps after the ctx.Done() case, where DeleteAllOf returned out
\* (lines 343-346)
ErrsWhenCancelled(fromPods, out) ==
    fromPods
    \o (IF out = "other" THEN <<[kind |-> "delete", detail |-> <<>>]>> ELSE <<>>)
    \o <<[kind |-> "cancelled", detail |-> <<>>]>>

\* what DeleteAllOf can return: done, nothing to delete, or another error, after
\* which the pods are still there
DeleteAllOfOutcomes ==
    {"ok", "other"} \cup (IF Labelled(clusterPods) = {} THEN {"notfound"} ELSE {})

\* the select of runSteps and its return (lines 340-350)
RunStepsEnd ==
    /\ pc = "select"
    /\ LET fromPods == ErrsOfRunPods
       IN  IF IsDone(ctxOf(phase))
           THEN \E out \in DeleteAllOfOutcomes :
                   /\ bulkDeletes' = Append(bulkDeletes,
                         [phase |-> phase, ctx |-> cleanupCtx,
                          namespace |-> TestNamespace,
                          selector |-> [key |-> MultiStageTestLabel, value |-> TestName]])
                   /\ clusterPods' = IF out = "ok" THEN DeleteAllOf(clusterPods)
                                     ELSE clusterPods
                   /\ RunStepsReturns(NewAggregate(ErrsWhenCancelled(fromPods, out)))
           ELSE /\ RunStepsReturns(NewAggregate(fromPods))
                /\ UNCHANGED <<bulkDeletes, clusterPods>>
    /\ UNCHANGED <<config, again, subTests, objects, cancelled, env, toCreate, pods, i,
                   podErrs, calls, generated, submitted, waited, completed,
                   cancelPhase>>

(* ---- runPods() and runPod() ---------------------------------------------- *)

\* runPods after runPod returned for pods[i] (lines 603-610)
RunPodReturns(failed) ==
    /\ podErrs' = IF failed THEN Append(podErrs, pods[i].Name) ELSE podErrs
    /\ IF (failed /\ shortCircuit(phase)) \/ i = Len(pods)
       THEN /\ pc' = "select"
            /\ UNCHANGED i
       ELSE /\ pc' = "runPod"
            /\ i' = i + 1

\* mutant: runPod does not wait for the pod it created
RunPodCreateWithoutWait ==
    /\ pc = "runPod"
    /\ \E ok \in BOOLEAN :
          /\ submitted' = Append(submitted, [pod |-> pods[i].Name, ok |-> ok])
          /\ clusterPods' = IF ok THEN Put(clusterPods, pods[i].Name,
                                           [Label |-> pods[i].Label, Phase |-> "Running"])
                            ELSE clusterPods
          /\ RunPodReturns(~ok)
    /\ UNCHANGED <<config, again, subTests, objects, cancelled, phase, env, toCreate, errs,
                   pods, result, calls, generated, waited, bulkDeletes, completed,
                   cancelPhase>>

\* runPod up to the wait: createOrRestartPod (lines 614-616)
RunPodCreate ==
    /\ pc = "runPod"
    /\ \E ok \in BOOLEAN :
          /\ submitted' = Append(submitted, [pod |-> pods[i].Name, ok |-> ok])
          /\ IF ok
             THEN /\ clusterPods' = Put(clusterPods, pods[i].Name,
                                        [Label |-> pods[i].Label, Phase |-> "Running"])
                  /\ pc' = "wait"
                  /\ UNCHANGED <<i, podErrs>>
             ELSE /\ RunPodReturns(TRUE)
                  /\ UNCHANGED clusterPods
    /\ UNCHANGED <<config, again, subTests, objects, cancelled, phase, env, toCreate, errs,
                   pods, result, calls, generated, waited, bulkDeletes, completed,
                   cancelPhase>>

\* mutant: sub-tests are collected only from pods that succeeded
SubTestsAfterSuccessOnly(out) ==
    IF out = "Succeeded" THEN Append(subTests, pods[i].Name) ELSE subTests

\* s.subTests after the wait on pods[i] returned out (line 621)
SubTestsAfter(out) == Append(subTests, pods[i].Name)

\* runPod from the return of waitForPodCompletion (lines 617-638)
RunPodWait ==
    /\ pc = "wait"
    /\ \E out \in WaitOutcomes(ctxOf(phase)) :
          /\ clusterPods' = IF out = "cancelled" THEN clusterPods
                            ELSE [clusterPods EXCEPT ![pods[i].Name].Phase = out]
          /\ waited' = Append(waited, [pod |-> pods[i].Name, ctx |-> ctxOf(phase),
                                       out |-> out])
          /\ subTests' = SubTestsAfter(out)
          /\ RunPodReturns(out # "Succeeded")
    /\ UNCHANGED <<config, again, objects, cancelled, phase, env, toCreate, errs, pods,
                   result, calls, generated, submitted, bulkDeletes, completed,
                   cancelPhase>>

(* ---- the caller ---------------------------------------------------------- *)

\* the caller of Run cancels its context while run() executes
Cancel ==
    /\ ~cancelled
    /\ pc # "done"
    /\ cancelled' = TRUE
    /\ cancelPhase' = IF pc \in {"runSteps", "runPod", "wait", "select"} THEN phase
                      ELSE "provisioning"
    /\ UNCHANGED <<config, again, subTests, objects, clusterPods, pc, phase, env, toCreate,
                   errs, pods, i, podErrs, result, calls, generated, submitted, waited,
                   bulkDeletes, completed>>

(* ---- specification of one run -------------------------------------------- *)

\* step lists of at most MaxSteps steps in all; the first step of a list mounts
\* the pull credential.  A run starts from a test with a cluster profile and one
\* lease, in a namespace where the profile secret and a shared secret left by an
\* earlier run may or may not exist.
StepList(p, flags) ==
    [k \in 1..Len(flags) |->
        LiteralTestStep(p \o ToString(k), flags[k],
                        IF k = 1 THEN <<PullCredential>> ELSE <<>>)]

FlagLists(n) == UNION {[1..m -> {"nil", "true"}] : m \in 0..n}
AnyFlagLists(n) == UNION {[1..m -> BoolPtr] : m \in 0..n}

\* the fields and locals of a step on which run() has not been called
InitRun ==
    /\ subTests = <<>>
    /\ clusterPods = <<>>
    /\ cancelled = FALSE
    /\ phase = "pre"
    /\ env = <<>>
    /\ toCreate = <<>>
    /\ errs = <<>>
    /\ pods = <<>>
    /\ i = 1
    /\ podErrs = <<>>
    /\ result = [returned |-> FALSE, fatal |-> FALSE, err |-> Nil]
    /\ calls = [p \in Phases |-> 0]
    /\ generated = [p \in Phases |-> NotGenerated]
    /\ submitted = <<>>
    /\ waited = <<>>
    /\ bulkDeletes = <<>>
    /\ completed = <<>>
    /\ cancelPhase = ""
    /\ pass = 1
    /\ firstObjects = <<>>
    /\ others = <<>>
    /\ requires = <<>>

Init ==
    /\ \E lp \in FlagLists(MaxSteps), lt \in FlagLists(MaxSteps), lo \in FlagLists(MaxSteps) :
          /\ Len(lp) + Len(lt) + Len(lo) <= MaxSteps
          /\ pre = StepList("pre", lp)
          /\ test = StepList("test", lt)
          /\ post = StepList("post", lo)
    /\ allowSkipOnSuccess \in {"nil", "true"}
    /\ profile = "aws"
    /\ leases = <<DefaultLeaseEnv>>
    /\ objects \in {<<>>,
                    Put(<<>>, SecretKey(profileSecretName), "profile"),
                    Put(Put(<<>>, SecretKey(profileSecretName), "profile"),
                        SecretKey(TestName), "stale")}
    /\ pc = "environment"
    /\ InitRun

Next ==
    \/ Environment
    \/ CreateSecretDelete
    \/ CreateSecretCreate
    \/ CreateCredentialsRead
    \/ CreateCredentialsCreate
    \/ SetupRBAC
    \/ RunStepsBegin
    \/ RunPodCreate
    \/ RunPodWait
    \/ RunStepsEnd
    \/ Cancel

Spec == Init /\ [][Next]_vars

(* ---- specification of generatePods alone --------------------------------- *)

\* generatePods called on the steps of a phase with any hasPrevErrs and any
\* build failures
GeneratePodsCall ==
    /\ pc = "generatePods"
    /\ \E p \in Phases, prevErrs \in BOOLEAN :
          \E failing \in SUBSET Buildable(StepsOf(p), prevErrs) :
             LET made == generatePods(StepsOf(p), prevErrs, failing) IN
             generated' = [generated EXCEPT ![p] =
                             [called |-> TRUE, hasPrevErrs |-> prevErrs,
                              failing |-> failing, ret |-> made.ret, err |-> made.err]]
    /\ pc' = "generated"
    /\ UNCHANGED <<config, again, subTests, objects, clusterPods, cancelled, phase, env,
                   toCreate, errs, pods, i, podErrs, result, calls, submitted, waited,
                   bulkDeletes, completed, cancelPhase>>

InitGen ==
    /\ \E lp \in AnyFlagLists(MaxSteps), lt \in AnyFlagLists(MaxSteps),
          lo \in AnyFlagLists(MaxSteps) :
          /\ Len(lp) + Len(lt) + Len(lo) <= MaxSteps
          /\ pre = StepList("pre", lp)
          /\ test = StepList("test", lt)
          /\ post = StepList("post", lo)
    /\ allowSkipOnSuccess \in BoolPtr
    /\ profile = ""
    /\ leases = <<>>
    /\ objects = <<>>
    /\ pc = "generatePods"
    /\ InitRun

NextGen == GeneratePodsCall

SpecGen == InitGen /\ [][NextGen]_vars


(* ---- specification of the access provisioning ----------------------------- *)

\* largest number of credential references of one test, all steps together
MaxCredentials == 2

\* largest number of store operations other runs make during one behaviour
MaxOthers == 1

\* credentials of the donor namespaces; the second and the third are the pair
\* of the comment at lines 295-298
CredentialRefs ==
    {PullCredential,
     [Namespace |-> "ns-a", Name |-> "name"],
     [Namespace |-> "ns", Name |-> "a-name"],
     [Namespace |-> "ns", Name |-> "name"]}

CredentialLists(n) == UNION {[1..m -> CredentialRefs] : m \in 0..n}

\* the keys createSecret, createCredentials and setupRBAC write
ProvisionedKeys ==
    {SecretKey(TestName)}
    \cup {SecretKey(MirroredName(AllCredentials[k])) : k \in 1..Len(AllCredentials)}
    \cup {RBACKeys[k] : k \in 1..Len(RBACKeys)}

\* the store operations of a run of this step: the delete and the create of
\* createSecret (the secret of another run holds what its pods wrote), the
\* creates of createCredentials and of setupRBAC
StoreOps ==
    {[op |-> "delete", key |-> SecretKey(TestName), content |-> "none"],
     [op |-> "create", key |-> SecretKey(TestName), content |-> "other"]}
    \cup {[op |-> "create", key |-> SecretKey(MirroredName(AllCredentials[k])),
           content |-> AllCredentials[k]] : k \in 1..Len(AllCredentials)}
    \cup {[op |-> "create", key |-> RBACKeys[k], content |-> "rbac"] :
              k \in 1..Len(RBACKeys)}

\* the first invocation of the access provisioning has returned without error
FirstReturned == pc = "runSteps" /\ pass = 1

\* another run of the step, in the same namespace, makes one of its store
\* operations between two store operations of this run
OtherRun ==
    /\ Len(others) < MaxOthers
    /\ pc \in {"createSecret", "createSecretCreate", "createCredentials",
               "createCredentialsCreate", "setupRBAC"} \/ FirstReturned
    /\ \E o \in StoreOps :
          /\ IF o.op = "delete"
             THEN Exists(o.key) /\ objects' = Remove(objects, o.key)
             ELSE ~Exists(o.key) /\ objects' = Put(objects, o.key, o.content)
          /\ others' = Append(others, [op |-> o.op, key |-> o.key])
    /\ UNCHANGED <<config, pass, firstObjects, requires, subTests, clusterPods, cancelled, pc,
                   phase, env, toCreate, errs, pods, i, podErrs, result, history>>

\* createSecret, createCredentials and setupRBAC are invoked a second time
ProvisionAgain ==
    /\ FirstReturned
    /\ pass' = 2
    /\ firstObjects' = objects
    /\ completed' = <<"environment">>
    /\ pc' = "createSecret"
    /\ UNCHANGED <<config, others, requires, subTests, objects, clusterPods,
                   cancelled, phase, env, toCreate, errs, pods, i, podErrs, result,
                   calls, generated, submitted, waited, bulkDeletes, cancelPhase>>

\* the credentials of a list that the step of phase number n mounts, the list
\* being dealt to the steps of Pre, Test and Post in turn
Dealt(credentials, n) ==
    SelectSeq([k \in 1..Len(credentials) |->
                  IF k % 3 = n % 3 THEN <<credentials[k]>> ELSE <<>>],
              LAMBDA c : c # <<>>)

\* a test without cluster profile whose three steps mount at most MaxCredentials
\* credentials in all, in a namespace where the shared secret of an earlier run
\* may exist
InitProv ==
    /\ \E credentials \in CredentialLists(MaxCredentials) :
          /\ pre = <<LiteralTestStep("pre1", "nil", Flatten(Dealt(credentials, 1)))>>
          /\ test = <<LiteralTestStep("test1", "nil", Flatten(Dealt(credentials, 2)))>>
          /\ post = <<LiteralTestStep("post1", "nil", Flatten(Dealt(credentials, 3)))>>
    /\ allowSkipOnSuccess = "nil"
    /\ profile = ""
    /\ leases = <<>>
    /\ objects \in {<<>>, Put(<<>>, SecretKey(TestName), "stale")}
    /\ pc = "environment"
    /\ InitRun

NextProv ==
    \/ Environment
    \/ CreateSecretDelete
    \/ CreateSecretCreate
    \/ CreateCredentialsRead
    \/ CreateCredentialsCreate
    \/ SetupRBAC
    \/ ProvisionAgain
    \/ OtherRun

SpecProv == InitProv /\ [][NextProv]_vars

(* ---- Requires() ------------------------------------------------------------ *)

\* what s.config knows of the images (api.ReleaseBuildConfiguration): the
\* pipeline images and the images the configuration builds
PipelineImages == {"src"}
BuiltImages == {"built"}
IsPipelineImage(from) == from \in PipelineImages
BuildsImage(from) == from \in BuiltImages

\* the links of the api package
LinkForImage(name) == [link |-> "image", name |-> name]
InternalImageLink(tag) == [link |-> "internal", name |-> tag]
ReleaseImagesLink(name) == [link |-> "releaseImages", name |-> name]
LatestReleaseName == "latest"

\* utils.LinkForEnv: the link that provides a parameter
LinkForEnv(name) == [ok |-> TRUE, link |-> [link |-> "parameter", name |-> name]]

\* the step fields Requires() reads, beside those run() reads
RequiringStep(as, from, fromImage, dependencies, cli) ==
    [As |-> as, OptionalOnSuccess |-> "nil", Credentials |-> <<>>,
     From |-> from, FromImage |-> fromImage, Dependencies |-> dependencies, Cli |-> cli]

\* step.FromImageTag(): the pipeline tag of the step's FromImage, when it has one
FromImageTag(step) == [ok |-> step.FromImage # "", link |-> step.FromImage]

AllSteps == (pre \o test) \o post

\* needsReleaseImage after the loop over the steps (lines 162-167)
needsReleaseImage ==
    \E k \in 1..Len(AllSteps) :
        ~(IsPipelineImage(AllSteps[k].From) \/ BuildsImage(AllSteps[k].From))

\* mutant: the payload need is forgotten
needsReleasePayloadNever == FALSE

\* needsReleasePayload (lines 189-190)
needsReleasePayload == profile # ""

\* internalLinks after the loop over the steps (lines 163-171)
internalLinks ==
    {AllSteps[k].From : k \in {j \in 1..Len(AllSteps) :
        IsPipelineImage(AllSteps[j].From) \/ BuildsImage(AllSteps[j].From)}}
    \cup {FromImageTag(AllSteps[k]).link : k \in {j \in 1..Len(AllSteps) :
                                                  FromImageTag(AllSteps[j]).ok}}

\* what one step adds to ret: the links of its dependencies and of its cli
\* (lines 173-184)
LinksOfStep(step) ==
    [k \in 1..Len(step.Dependencies) |-> LinkForImage(step.Dependencies[k])]
    \o (IF step.Cli # "" THEN <<LinkForImage(step.Cli \o ":cli")>> ELSE <<>>)

\* the links of the profile parameters (lines 191-195)
ProfileLinks ==
    LET linked == SelectSeq(envForProfile, LAMBDA e : LinkForEnv(e).ok)
    IN  [k \in 1..Len(linked) |-> LinkForEnv(linked[k]).link]

\* the orders in which a range over the map internalLinks can visit its keys
Orders(set) ==
    {order \in [1..Cardinality(set) -> set] :
        \A j, k \in 1..Cardinality(set) : j # k => order[j] # order[k]}

\* ret of Requires() when the map is visited in the given order (lines 159-201)
Requires(order) ==
    Flatten([k \in 1..Len(AllSteps) |-> LinksOfStep(AllSteps[k])])
    \o [k \in 1..Len(order) |-> InternalImageLink(order[k])]
    \o (IF profile # "" THEN ProfileLinks ELSE <<>>)
    \o (IF needsReleaseImage /\ ~needsReleasePayload
        THEN <<ReleaseImagesLink(LatestReleaseName)>> ELSE <<>>)

RequiresCall ==
    /\ pc = "Requires"
    /\ \E order \in Orders(internalLinks) : requires' = Requires(order)
    /\ pc' = "required"
    /\ UNCHANGED <<config, pass, firstObjects, others, subTests, objects, clusterPods,
                   cancelled, phase, env, toCreate, errs, pods, i, podErrs, result,
                   history>>

\* the shapes of a step: its source image is a pipeline image, an image the
\* configuration builds or another one; it has a FromImage or not; it has a
\* dependency and a cli or neither
StepShapes ==
    {[From |-> from, FromImage |-> fromImage, Dependencies |-> more[1], Cli |-> more[2]] :
        from \in {"src", "built", "tool"}, fromImage \in {"", "pipeline:tag"},
        more \in {<<<<>>, "">>, <<<<"installer">>, "latest">>}}

ShapeLists(n) == UNION {[1..m -> StepShapes] : m \in 0..n}

\* the steps of phase number n, the shapes being dealt to Pre, Test and Post in turn
RequiringSteps(shapes, n) ==
    LET mine == SelectSeq([k \in 1..Len(shapes) |-> k], LAMBDA k : k % 3 = n % 3)
    IN  [j \in 1..Len(mine) |->
            RequiringStep("step" \o ToString(mine[j]), shapes[mine[j]].From,
                          shapes[mine[j]].FromImage, shapes[mine[j]].Dependencies,
                          shapes[mine[j]].Cli)]

\* a test of at most MaxSteps steps, with or without cluster profile
InitReq ==
    /\ \E shapes \in ShapeLists(MaxSteps) :
          /\ pre = RequiringSteps(shapes, 1)
          /\ test = RequiringSteps(shapes, 2)
          /\ post = RequiringSteps(shapes, 3)
    /\ allowSkipOnSuccess = "nil"
    /\ profile \in {"", "aws"}
    /\ leases = <<>>
    /\ objects = <<>>
    /\ pc = "Requires"
    /\ InitRun

NextReq == RequiresCall

SpecReq == InitReq /\ [][NextReq]_vars

(* ---- reading the history -------------------------------------------------- *)

ProvisioningOrder == <<"environment", "createSecret", "createCredentials", "setupRBAC">>

PodNames(p) == {TestName \o "-" \o StepsOf(p)[k].As : k \in 1..Len(StepsOf(p))}
Range(f) == {f[k] : k \in DOMAIN f}

\* run() recorded an error of phase p
PhaseFailed(p) == \E k \in 1..Len(errs) : errs[k].phase = p

\* the error run() recorded for phase p, Nil when it recorded none
PhaseError(p) ==
    IF PhaseFailed(p) THEN errs[CHOOSE k \in 1..Len(errs) : errs[k].phase = p].err ELSE Nil

HasKind(err, kind) == \E k \in 1..Len(err) : err[k].kind = kind

\* the pods of phase p handed to createOrRestartPod, in order
SubmittedOf(p) == SelectSeq(submitted, LAMBDA e : e.pod \in PodNames(p))

Names(podlist) == [k \in 1..Len(podlist) |-> podlist[k].Name]
PodsOf(entries) == [k \in 1..Len(entries) |-> entries[k].pod]

\* runPod returned an error for the pod: its submission failed, or its wait
\* returned anything but success
Failed(name) ==
    \/ \E k \in 1..Len(submitted) : submitted[k].pod = name /\ ~submitted[k].ok
    \/ \E k \in 1..Len(waited) : waited[k].pod = name /\ waited[k].out # "Succeeded"

\* the pods of phase p for which runPod returned an error, in order
FailedPodsOf(p) == SelectSeq(PodsOf(SubmittedOf(p)), Failed)

\* the pods whose submission succeeded, in order
Created == PodsOf(SelectSeq(submitted, LAMBDA e : e.ok))

\* runSteps of phase p has returned to run()
PhaseReturned(p) == calls[p] = 1 /\ (phase # p \/ pc = "done")

\* the error of kind "pods" inside a phase error, Nil when there is none
PodErrorsIn(err) ==
    IF HasKind(err, "pods")
    THEN err[CHOOSE k \in 1..Len(err) : err[k].kind = "pods"].detail
    ELSE Nil

\* the result of run() carries a "cancelled" error
ResultHasCancelled ==
    /\ result.returned /\ ~result.fatal
    /\ \E k \in 1..Len(result.err) : HasKind(result.err[k].err, "cancelled")

\* pods of the test namespace that have not reached a terminal phase
Running == {n \in DOMAIN clusterPods : clusterPods[n].Phase = "Running"}

\* every pod name of the test in declaration order, Pre then Test then Post
AllPodNames ==
    LET steps == pre \o test \o post
    IN  [k \in 1..Len(steps) |-> TestName \o "-" \o steps[k].As]
Rank(name) == CHOOSE k \in 1..Len(AllPodNames) : AllPodNames[k] = name
PhaseRank(p) == IF p = "pre" THEN 1 ELSE IF p = "test" THEN 2 ELSE 3
PhaseOfPod(name) == CHOOSE p \in Phases : name \in PodNames(p)

(* ---- C1 ------------------------------------------------------------------- *)

\* C1: Pre runs first; a Test workload is built or submitted only when Pre returned
\* no error; when Pre returned an error run() goes straight to Post, which has run
\* by the time run() returns.
C1_PreFailureSkipsTest ==
    /\ (calls["test"] > 0 \/ calls["post"] > 0) => calls["pre"] = 1
    /\ (calls["test"] > 0 \/ SubmittedOf("test") # <<>>) => ~PhaseFailed("pre")
    /\ PhaseFailed("pre") =>
          /\ calls["test"] = 0
          /\ ~generated["test"].called
          /\ SubmittedOf("test") = <<>>
          /\ phase = "post"
          /\ pc = "done" => calls["post"] = 1 /\ generated["post"].called

C1_Witness ==
    /\ pc = "done"
    /\ PhaseFailed("pre")
    /\ test # <<>>
    /\ calls["test"] = 0
    /\ SubmittedOf("post") # <<>>

(* ---- C2 ------------------------------------------------------------------- *)

\* C2: once provisioning succeeded, runSteps is invoked on the Post steps exactly
\* once before run() returns, whatever Pre and Test did; after a Pre failure Test is
\* skipped and Post still builds its workloads (every Post step is built or reports
\* its build error, none is skipped) and returns its own result.
C2_PostAlwaysRuns ==
    /\ calls["post"] <= 1
    /\ (pc = "done" /\ completed = ProvisioningOrder) =>
          /\ calls["post"] = 1
          /\ generated["post"].called
          /\ result.returned /\ ~result.fatal
          /\ PhaseFailed("post") <=> (\E k \in 1..Len(result.err) : result.err[k].phase = "post")
    /\ (pc = "done" /\ PhaseFailed("pre")) =>
          /\ calls["test"] = 0
          /\ generated["post"].hasPrevErrs
          /\ Len(generated["post"].ret) + Len(generated["post"].err) = Len(post)
          /\ generated["post"].err = Nil =>
                [k \in 1..Len(SubmittedOf("post")) |-> SubmittedOf("post")[k].pod]
                    = Names(generated["post"].ret)

C2_Witness ==
    /\ pc = "done"
    /\ PhaseFailed("pre")
    /\ HasKind(PhaseError("pre"), "cancelled")
    /\ test # <<>>
    /\ Len(generated["post"].ret) = 2
    /\ Len(SubmittedOf("post")) = 2
    /\ PhaseFailed("post")


(* ---- C3 ------------------------------------------------------------------- *)

\* C3 as stated: whenever the caller's context was cancelled while a phase was in
\* progress, the result of run() carries "cancelled" and a bulk delete was issued.
C3_CancelledInAnyPhase ==
    (pc = "done" /\ cancelPhase \in Phases) =>
        /\ ResultHasCancelled
        /\ bulkDeletes # <<>>

\* the context was cancelled no later than the cancellation check of phase p
CancelledBy(p) ==
    \/ cancelPhase = "provisioning"
    \/ cancelPhase \in Phases /\ PhaseRank(cancelPhase) <= PhaseRank(p)

\* C3 amended: when the caller's context is cancelled no later than the cancellation
\* check of the Pre or Test phase, and that phase's build returned no error, the
\* phase's error, and with it the result of run(), carries "cancelled", a bulk delete
\* by the test's label in the test namespace was issued, and the errors of the
\* phase's pods are reported beside "cancelled".
C3_CancelledPreOrTest ==
    pc = "done" =>
        \A p \in {"pre", "test"} :
            (CancelledBy(p) /\ generated[p].called /\ generated[p].err = Nil) =>
                /\ HasKind(PhaseError(p), "cancelled")
                /\ ResultHasCancelled
                /\ \E k \in 1..Len(bulkDeletes) :
                      /\ bulkDeletes[k].phase = p
                      /\ bulkDeletes[k].namespace = TestNamespace
                      /\ bulkDeletes[k].selector =
                            [key |-> MultiStageTestLabel, value |-> TestName]
                /\ PodErrorsIn(PhaseError(p)) = FailedPodsOf(p)

C3_Witness ==
    /\ pc = "done"
    /\ cancelPhase = "test"
    /\ generated["test"].called
    /\ FailedPodsOf("test") # <<>>
    /\ HasKind(PhaseError("test"), "pods")
    /\ ResultHasCancelled
    /\ bulkDeletes # <<>>

(* ---- C4 ------------------------------------------------------------------- *)

\* the context was cancelled before or during Pre or Test
CancelledBeforePost == cancelPhase \in {"provisioning", "pre", "test"}

\* the bulk delete never runs under the caller's context
CleanupDetached ==
    \A k \in 1..Len(bulkDeletes) :
        bulkDeletes[k].ctx # "caller" /\ ~IsDone(bulkDeletes[k].ctx)

\* C4 as stated: after a cancellation before or during Pre or Test, every Post
\* workload that was built is submitted and waited for to a terminal state, and the
\* bulk delete runs under a detached context.
C4_EveryBuiltPostPodRuns ==
    (pc = "done" /\ CancelledBeforePost) =>
        /\ \A k \in 1..Len(generated["post"].ret) :
              \E w \in 1..Len(waited) :
                  /\ waited[w].pod = generated["post"].ret[k].Name
                  /\ waited[w].out \in {"Succeeded", "Failed"}
        /\ CleanupDetached

\* C4 amended: after a cancellation before or during Pre or Test, when the Post build
\* returned no error every built Post workload is still submitted, in order; each
\* Post workload whose submission succeeded is waited for under a context that is
\* never cancelled, up to a terminal state; and the bulk delete runs under a detached
\* context, not the cancelled one.
C4_PostIgnoresCancellation ==
    /\ \A w \in 1..Len(waited) :
          waited[w].pod \in PodNames("post") =>
              /\ ~IsDone(waited[w].ctx)
              /\ waited[w].out \in {"Succeeded", "Failed"}
    /\ CleanupDetached
    /\ (pc = "done" /\ CancelledBeforePost /\ generated["post"].called
          /\ generated["post"].err = Nil) =>
          /\ PodsOf(SubmittedOf("post")) = Names(generated["post"].ret)
          /\ \A k \in 1..Len(SubmittedOf("post")) :
                SubmittedOf("post")[k].ok =>
                    \E w \in 1..Len(waited) : waited[w].pod = SubmittedOf("post")[k].pod

C4_Witness ==
    /\ pc = "done"
    /\ cancelPhase = "pre"
    /\ bulkDeletes # <<>>
    /\ Len(generated["post"].ret) = 2
    /\ \A k \in 1..2 : \E w \in 1..Len(waited) :
          waited[w].pod = generated["post"].ret[k].Name

(* ---- C5 ------------------------------------------------------------------- *)

\* runPods of the Post phase has returned
PostLoopEnded ==
    /\ generated["post"].called
    /\ generated["post"].err = Nil
    /\ pc = "done" \/ (phase = "post" /\ pc = "select")

\* C5: in Pre and Test no pod is submitted after a pod of the same phase failed; in
\* Post every pod handed to runPods is submitted in turn whatever happened to the
\* earlier ones, each submitted one is waited for, and every failure is recorded in
\* the error of the phase.
C5_ShortCircuit ==
    /\ \A p \in {"pre", "test"} :
          \A k \in 1..Len(SubmittedOf(p)) :
              Failed(SubmittedOf(p)[k].pod) => k = Len(SubmittedOf(p))
    /\ PostLoopEnded =>
          /\ PodsOf(SubmittedOf("post")) = Names(generated["post"].ret)
          /\ \A k \in 1..Len(SubmittedOf("post")) :
                SubmittedOf("post")[k].ok =>
                    \E w \in 1..Len(waited) : waited[w].pod = SubmittedOf("post")[k].pod
    /\ (phase = "post" /\ pc = "select") => podErrs = FailedPodsOf("post")
    /\ \A p \in Phases :
          (PhaseReturned(p) /\ generated[p].err = Nil) =>
              PodErrorsIn(PhaseError(p)) = FailedPodsOf(p)

C5_Witness ==
    /\ pc = "done"
    /\ Len(generated["post"].ret) = 2
    /\ Len(FailedPodsOf("post")) = 2
    /\ Len(PodErrorsIn(PhaseError("post"))) = 2
    /\ Len(generated["pre"].ret) = 1
    /\ Len(FailedPodsOf("pre")) = 0

(* ---- C6 ------------------------------------------------------------------- *)

\* pods are submitted in declaration order, Pre before Test before Post
SubmittedInOrder ==
    \A k1, k2 \in 1..Len(submitted) :
        k1 < k2 => Rank(submitted[k1].pod) < Rank(submitted[k2].pod)

\* a pod is submitted only after the wait on every pod created before it returned
OneWaitAtATime ==
    /\ Len(Created) = Len(waited) + (IF pc = "wait" THEN 1 ELSE 0)
    /\ PodsOf(waited) = SubSeq(Created, 1, Len(waited))

\* no pod of a phase is submitted while an earlier phase is still executing
PhasesDoNotOverlap ==
    \A k \in 1..Len(submitted) :
        PhaseRank(PhaseOfPod(submitted[k].pod)) <= PhaseRank(phase)

\* C6 as stated: at every point at most one pod is submitted and not yet terminal,
\* and pods are submitted in order, one wait at a time, phase after phase.
C6_AtMostOneRunningPod ==
    /\ Cardinality(Running) <= 1
    /\ SubmittedInOrder
    /\ OneWaitAtATime
    /\ PhasesDoNotOverlap

\* C6 amended: at every point at most one pod is submitted with its wait not yet
\* returned; pods are submitted in declaration order, a pod never before the wait on
\* the previous one has returned, and no pod of a later phase before the loop of the
\* earlier phase has ended.  (A pod whose wait was ended by the cancellation may
\* still be running when the Post pods are submitted.)
C6_Sequential ==
    /\ SubmittedInOrder
    /\ OneWaitAtATime
    /\ PhasesDoNotOverlap
    /\ pc = "runPod" => Len(Created) = Len(waited)
    /\ \A n \in Running :
          \/ pc = "wait" /\ n = pods[i].Name
          \/ \E w \in 1..Len(waited) : waited[w].pod = n /\ waited[w].out = "cancelled"

C6_Witness ==
    /\ pc = "wait"
    /\ phase = "post"
    /\ Len(waited) = 2
    /\ Len(submitted) = 3
    /\ Cardinality(Running) = 1

(* ---- C7 ------------------------------------------------------------------- *)

\* the step of phase p at position k, as generatePods returned it
InBatch(p, k) == (TestName \o "-" \o StepsOf(p)[k].As) \in Range(Names(generated[p].ret))
HasBuildError(p, k) ==
    \E e \in 1..Len(generated[p].err) : generated[p].err[e].detail = <<StepsOf(p)[k].As>>
OptionalSteps(p) == {k \in 1..Len(StepsOf(p)) : StepsOf(p)[k].OptionalOnSuccess = "true"}
SkipAllowed(p) == allowSkipOnSuccess = "true" /\ ~generated[p].hasPrevErrs

\* C7 as stated: an optional-on-success step is left out of the batch exactly when
\* the test allows skipping and no prior phase failed, otherwise it is in the batch;
\* a skip produces no error.
C7_OmittedIffSkipAllowed ==
    \A p \in Phases :
        generated[p].called =>
            \A k \in OptionalSteps(p) :
                /\ ~InBatch(p, k) <=> SkipAllowed(p)
                /\ SkipAllowed(p) => ~HasBuildError(p, k)

\* C7 amended: an optional-on-success step is left out of the batch without an error
\* exactly when the test allows skipping and no prior phase failed; otherwise it is
\* built, and is in the batch unless its build failed, in which case its error is in
\* the returned aggregate.
C7_SkipPredicate ==
    \A p \in Phases :
        generated[p].called =>
            \A k \in OptionalSteps(p) :
                /\ (~InBatch(p, k) /\ ~HasBuildError(p, k)) <=> SkipAllowed(p)
                /\ ~SkipAllowed(p) =>
                      /\ InBatch(p, k) <=> StepsOf(p)[k].As \notin generated[p].failing
                      /\ HasBuildError(p, k) <=> StepsOf(p)[k].As \in generated[p].failing

C7_Witness ==
    /\ generated["post"].called
    /\ allowSkipOnSuccess = "true"
    /\ Len(post) = 3
    /\ OptionalSteps("post") = {1, 3}
    /\ ~generated["post"].hasPrevErrs
    /\ Len(generated["post"].ret) = 1

(* ---- C8 ------------------------------------------------------------------- *)

\* runPod has returned for the k-th submitted pod
RunPodReturned(k) == k < Len(submitted) \/ pc # "wait"

\* C8 as stated: once runPod returned for a pod, whatever the outcome, the pod's
\* sub-tests are in s.subTests.
C8_CollectedFromEveryPod ==
    \A k \in 1..Len(submitted) :
        RunPodReturned(k) => submitted[k].pod \in Range(subTests)

\* s.subTests holds the sub-tests of exactly the pods whose wait returned, in the
\* order of the waits
CollectedFromWaited ==
    /\ subTests = PodsOf(waited)
    /\ \A k \in 1..Len(submitted) :
          RunPodReturned(k) => (submitted[k].pod \in Range(subTests) <=> submitted[k].ok)

\* C8 amended: once runPod returned for a pod whose submission succeeded, whether
\* its wait succeeded or failed, the pod's sub-tests are in s.subTests; a pod whose
\* submission failed contributes nothing; the list only grows at its end and is in
\* the order of execution.
C8_CollectedFromSubmittedPods ==
    /\ []CollectedFromWaited
    /\ [][Len(subTests') >= Len(subTests)
          /\ SubSeq(subTests', 1, Len(subTests)) = subTests]_vars

C8_Witness ==
    /\ pc = "done"
    /\ Len(subTests) = 2
    /\ Len(submitted) = 3
    /\ \E w \in 1..Len(waited) : waited[w].out = "Failed"

(* ---- C9 ------------------------------------------------------------------- *)

\* what the four provisioning operations leave in the test namespace
Provisioned ==
    /\ completed = ProvisioningOrder
    /\ Exists(SecretKey(TestName)) /\ objects[SecretKey(TestName)] = "empty"
    /\ \A k \in 1..Len(AllCredentials) : Exists(SecretKey(MirroredName(AllCredentials[k])))
    /\ \A k \in 1..Len(RBACKeys) : Exists(RBACKeys[k])
    /\ profile # "" => Exists(SecretKey(profileSecretName))

\* C9: the provisioning operations complete in the order environment, createSecret,
\* createCredentials, setupRBAC, and no phase starts and no pod is submitted before
\* all four succeeded and left their objects in the namespace.
C9_ProvisioningFirst ==
    /\ Len(completed) <= Len(ProvisioningOrder)
    /\ completed = SubSeq(ProvisioningOrder, 1, Len(completed))
    /\ (submitted # <<>> \/ \E p \in Phases : calls[p] > 0) => Provisioned

C9_Witness ==
    /\ pc = "wait"
    /\ Len(submitted) = 1
    /\ AllCredentials # <<>>
    /\ Provisioned

(* ---- C10 ------------------------------------------------------------------ *)

\* the operation whose error run() returned
FatalOp == result.err[1].op

\* C10: when environment resolution or a provisioning operation fails, run() returns
\* that error at once: the failed operation is the first one that did not complete,
\* no object of a later operation is created, and no phase builds or submits a pod.
C10_FatalAborts ==
    /\ result.fatal =>
          /\ pc = "done" /\ result.returned
          /\ Len(completed) < Len(ProvisioningOrder)
          /\ FatalOp = ProvisioningOrder[Len(completed) + 1]
          /\ \A p \in Phases : calls[p] = 0 /\ ~generated[p].called
          /\ submitted = <<>> /\ clusterPods = <<>> /\ subTests = <<>>
          /\ FatalOp \in {"environment", "createSecret", "createCredentials"} =>
                \A k \in 1..Len(RBACKeys) : ~Exists(RBACKeys[k])
          /\ FatalOp \in {"environment", "createSecret"} =>
                \A k \in 1..Len(AllCredentials) :
                    ~Exists(SecretKey(MirroredName(AllCredentials[k])))
          /\ FatalOp = "environment" =>
                (Exists(SecretKey(TestName)) => objects[SecretKey(TestName)] # "empty")
    /\ (pc = "done" /\ ~result.fatal) => completed = ProvisioningOrder

C10_Witness ==
    /\ result.fatal
    /\ FatalOp = "createCredentials"
    /\ Len(pre) > 0
    /\ completed = <<"environment", "createSecret">>

(* ---- C11 ------------------------------------------------------------------ *)

\* the second invocation of the access provisioning has returned
SecondReturned == pass = 2 /\ pc \in {"runSteps", "done"}

\* C11: when createSecret, createCredentials and setupRBAC are invoked a second
\* time and nothing but the two invocations changed the store, the second
\* invocation returns no error (the API server may still fail a call,
\* which is the only error it can return: no call fails on what the first
\* invocation left) and leaves exactly the objects the first invocation left: the
\* shared secret, the mirrored credentials, the service account, the role and the
\* role binding.
C11_Idempotent ==
    (SecondReturned /\ others = <<>>) =>
        /\ result.fatal => result.err[1].out = "other"
        /\ ~result.fatal =>
              /\ objects = firstObjects
              /\ DOMAIN objects = ProvisionedKeys
              /\ completed = ProvisioningOrder

C11_Witness ==
    /\ SecondReturned
    /\ others = <<>>
    /\ ~result.fatal
    /\ Len(AllCredentials) = 2
    /\ Cardinality(DOMAIN firstObjects) = 6
    /\ objects = firstObjects

(* ---- C12 ------------------------------------------------------------------ *)

\* the outcome of the store call whose error run() returned
FatalOut == result.err[1].out

\* C12 as stated: no provisioning operation returns an already-exists outcome of a
\* create or a not-found outcome of a delete to its caller.
C12_RacesNeverSurfaced ==
    result.fatal => FatalOut \notin {"exists", "notfound"}

\* the only already-exists or not-found outcome run() returns is that of the create
\* of the shared secret, after another run created the secret
OnlySecretCreateSurfaces ==
    (result.fatal /\ FatalOut \in {"exists", "notfound"}) =>
        /\ FatalOp = "createSecret"
        /\ result.err[1].failed = "create"
        /\ FatalOut = "exists"
        /\ \E k \in 1..Len(others) :
              others[k] = [op |-> "create", key |-> SecretKey(TestName)]

\* a delete of the shared secret that finds nothing, and a create of a mirrored
\* credential or of an RBAC object that finds the object, change nothing and let
\* the operation go on; such a call returns an error only when the API server
\* fails it
ToleratedStep ==
    /\ (pc = "createSecret" /\ pc' # pc /\ ~Exists(SecretKey(TestName))) =>
          IF result'.fatal THEN result'.err[1].out = "other"
          ELSE pc' = "createSecretCreate" /\ objects' = objects
    /\ (pc = "createCredentialsCreate" /\ result'.fatal) => result'.err[1].out = "other"
    /\ (pc = "createCredentialsCreate" /\ toCreate' # toCreate) =>
          \A name \in DOMAIN toCreate \ DOMAIN toCreate' :
              Exists(SecretKey(name)) => (objects' = objects /\ ~result'.fatal)
    /\ (pc = "setupRBAC" /\ <<pc, i>>' # <<pc, i>> /\ Exists(RBACKeys[i])) =>
          IF result'.fatal THEN result'.err[1].out = "other"
          ELSE objects' = objects /\ (i' = i + 1 \/ pc' = "runSteps")

\* C12 amended: in credential mirroring and in RBAC setup an already-exists outcome
\* of a create, and in the shared-secret reset a not-found outcome of the delete, are
\* treated as success and never returned to the caller, also when another run
\* creates or deletes the object between this run's store operations; an
\* already-exists outcome of the create of the shared secret, which happens only when
\* another run creates the secret between this run's delete and create, is returned
\* as the error of createSecret.
C12_ToleratedRaces ==
    /\ []OnlySecretCreateSurfaces
    /\ [][ToleratedStep]_vars

C12_Witness ==
    /\ FirstReturned
    /\ others = <<[op |-> "create", key |-> RBACKeys[2]]>>
    /\ AllCredentials # <<>>

(* ---- C13 ------------------------------------------------------------------ *)

\* the read loop of createCredentials has ended without error
CredentialsRead == pc = "createCredentialsCreate" \/ "createCredentials" \in Range(completed)

\* the credentials the steps mount
Mounted == Range(AllCredentials)

\* the last credential, in the order Pre, Test, Post, with the mirrored name
LastNamed(name) ==
    LET at == {k \in 1..Len(AllCredentials) : MirroredName(AllCredentials[k]) = name}
    IN  AllCredentials[CHOOSE k \in at : \A j \in at : j <= k]

\* C13 as stated: two distinct credentials never have the same mirrored name, so
\* every credential createCredentials read is stored under its own mirrored name.
C13_MirroredNamesInjective ==
    CredentialsRead =>
        /\ \A c1, c2 \in Mounted : c1 # c2 => MirroredName(c1) # MirroredName(c2)
        /\ (FirstReturned /\ others = <<>>) =>
              \A c \in Mounted : objects[SecretKey(MirroredName(c))] = c

\* C13 amended: the mirrored name is a function of (namespace, name) that is
\* injective in each of the two (credentials of one namespace with different names,
\* and credentials of one name in different namespaces, have different mirrored
\* names) but not over the pairs; of the credentials that share a mirrored name
\* createCredentials keeps the one that comes last in the order Pre, Test, Post, and
\* stores one secret per mirrored name.
C13_MirroredNames ==
    /\ CredentialsRead =>
          \A c1, c2 \in Mounted :
              (c1 # c2 /\ (c1.Namespace = c2.Namespace \/ c1.Name = c2.Name)) =>
                  MirroredName(c1) # MirroredName(c2)
    /\ \A name \in DOMAIN toCreate :
          /\ MirroredName(toCreate[name]) = name
          /\ toCreate[name] = LastNamed(name)
    /\ (FirstReturned /\ others = <<>>) =>
          /\ \A c \in Mounted :
                objects[SecretKey(MirroredName(c))] = LastNamed(MirroredName(c))
          /\ Cardinality(DOMAIN objects) =
                1 + Cardinality({MirroredName(c) : c \in Mounted}) + Len(RBACKeys)

C13_Witness ==
    /\ FirstReturned
    /\ others = <<>>
    /\ Cardinality(Mounted) = 2
    /\ Cardinality({MirroredName(c) : c \in Mounted}) = 1
    /\ \E c \in Mounted : objects[SecretKey(MirroredName(c))] # c

(* ---- C14 ------------------------------------------------------------------ *)

\* runSteps of phase p was executed and returned an error: a build error, the
\* error of a pod, or the cancellation found by its check
ReturnedError(p) ==
    /\ generated[p].called
    /\ \/ generated[p].err # Nil
       \/ FailedPodsOf(p) # <<>>
       \/ \E k \in 1..Len(bulkDeletes) : bulkDeletes[k].phase = p

\* the entries of the result of run() that name phase p
EntriesOf(p) == {k \in 1..Len(result.err) : result.err[k].phase = p}

\* C14: once provisioning succeeded, run() returns no error exactly when no executed
\* phase returned an error, and its aggregate has one entry, naming the phase and
\* carrying its error, for each phase that returned an error: at most the entry of
\* Pre or of Test, followed by the entry of Post.
C14_AggregateOfPhaseErrors ==
    (pc = "done" /\ ~result.fatal) =>
        /\ result.returned
        /\ result.err = Nil <=> \A p \in Phases : ~ReturnedError(p)
        /\ \A p \in Phases :
              /\ Cardinality(EntriesOf(p)) = IF ReturnedError(p) THEN 1 ELSE 0
              /\ \A k \in EntriesOf(p) : result.err[k].err # Nil
        /\ Len(result.err) <= 2
        /\ EntriesOf("pre") = {} \/ EntriesOf("test") = {}
        /\ Len(result.err) = 2 => result.err[2].phase = "post"

C14_Witness ==
    /\ pc = "done"
    /\ ~result.fatal
    /\ Len(result.err) = 2
    /\ result.err[1].phase = "test"
    /\ HasKind(result.err[1].err, "pods")
    /\ HasKind(result.err[2].err, "build")

(* ---- C15 ------------------------------------------------------------------ *)

\* the step is skipped by the generatePods call of phase p
SkippedIn(p, step) == SkipAllowed(p) /\ step.OptionalOnSuccess = "true"

\* the steps of phase p that are not skipped and whose build succeeds, resp. fails,
\* in declaration order
BuiltSteps(p) ==
    SelectSeq(StepsOf(p), LAMBDA st : ~SkippedIn(p, st) /\ st.As \notin generated[p].failing)
FailedSteps(p) ==
    SelectSeq(StepsOf(p), LAMBDA st : ~SkippedIn(p, st) /\ st.As \in generated[p].failing)

\* C15: generatePods goes through every step of the list whatever failed before;
\* it returns the pods of exactly the steps that are not skipped and were built, in
\* declaration order, and an aggregate with the error of every step whose build
\* failed, which is nil when none failed.
C15_BuildErrorsCollected ==
    \A p \in Phases :
        generated[p].called =>
            /\ Names(generated[p].ret) =
                  [k \in 1..Len(BuiltSteps(p)) |-> TestName \o "-" \o BuiltSteps(p)[k].As]
            /\ generated[p].err =
                  [k \in 1..Len(FailedSteps(p)) |->
                      [kind |-> "build", detail |-> <<FailedSteps(p)[k].As>>]]
            /\ generated[p].err = Nil <=> generated[p].failing = {}

C15_Witness ==
    /\ generated["pre"].called
    /\ Len(pre) = 3
    /\ generated["pre"].failing = {"pre1"}
    /\ Names(generated["pre"].ret) = <<TestName \o "-pre2", TestName \o "-pre3">>
    /\ Len(generated["pre"].err) = 1

(* ---- C16 ------------------------------------------------------------------ *)

\* the label of the pods of this test, which is the selector of the bulk delete
TestLabel == [key |-> MultiStageTestLabel, value |-> TestName]

\* every pod generatePods returned, every pod submitted and every bulk delete
\* carries the label of the test, in the test namespace
LabelledAsTest ==
    /\ \A p \in Phases : \A k \in 1..Len(generated[p].ret) :
          /\ generated[p].ret[k].Label = TestLabel
          /\ generated[p].ret[k].Namespace = TestNamespace
    /\ \A k \in 1..Len(pods) : pods[k].Label = TestLabel
    /\ \A n \in DOMAIN clusterPods : clusterPods[n].Label = TestLabel
    /\ \A k \in 1..Len(bulkDeletes) :
          /\ bulkDeletes[k].selector = TestLabel
          /\ bulkDeletes[k].namespace = TestNamespace
    /\ \A k \in 1..Len(submitted) :
          submitted[k].ok => \/ submitted[k].pod \in DOMAIN clusterPods
                             \/ bulkDeletes # <<>>

\* a bulk delete either fails and removes nothing or removes every pod the run
\* has submitted up to that point
BulkDeleteCoversAll ==
    Len(bulkDeletes') > Len(bulkDeletes) =>
        clusterPods' = clusterPods \/ clusterPods' = <<>>

\* C16: every pod generatePods returns, and so every pod the run submits, carries
\* the multi-stage-test label with the test name as value; the bulk delete on
\* cancellation selects by that label in the test namespace, and so covers every pod
\* the run has submitted up to that point.
C16_LabelInvariant ==
    /\ []LabelledAsTest
    /\ [][BulkDeleteCoversAll]_vars

C16_Witness ==
    /\ Len(bulkDeletes) = 1
    /\ bulkDeletes[1].phase = "test"
    /\ Len(Created) = 2
    /\ clusterPods = <<>>
    /\ pc = "runSteps"

(* ---- C17 ------------------------------------------------------------------ *)

\* createSecret returns without error
CreateSecretReturns == pc = "createSecretCreate" /\ pc' = "createCredentials"

\* when createSecret returns without error the secret named after the test exists
\* with empty data
ResetOnReturn ==
    CreateSecretReturns =>
        /\ SecretKey(TestName) \in DOMAIN objects'
        /\ objects'[SecretKey(TestName)] = "empty"

\* once createSecret has returned the secret never holds what an earlier run left,
\* and as long as no other run touches the store it stays there, empty, up to the
\* start of the pods
NothingLeftOver ==
    "createSecret" \in Range(completed) =>
        /\ Exists(SecretKey(TestName)) => objects[SecretKey(TestName)] # "stale"
        /\ others = <<>> =>
              Exists(SecretKey(TestName)) /\ objects[SecretKey(TestName)] = "empty"

\* C17: the shared secret is named after the test; when createSecret returns without
\* error a secret of that name exists in the test namespace with empty data, whether
\* or not a secret of that name, with whatever data, existed before; what an earlier
\* run wrote is never there for the pods of this run.
C17_SharedSecretReset ==
    /\ []NothingLeftOver
    /\ [][ResetOnReturn]_vars

C17_Witness ==
    /\ FirstReturned
    /\ others = <<[op |-> "create", key |-> SecretKey(TestName)]>>
    /\ objects[SecretKey(TestName)] = "empty"

(* ---- C18 ------------------------------------------------------------------ *)

\* a step's source image is neither a pipeline image nor built by the configuration
ExternalSource ==
    \E k \in 1..Len(AllSteps) : AllSteps[k].From \notin PipelineImages \cup BuiltImages

\* C18: the release-images link is in the result of Requires() exactly when some
\* step of Pre, Test or Post has a source image that is neither a pipeline image nor
\* built by the configuration and no cluster profile is set; with a profile the
\* links of the profile parameters are in the result and the release-images link is
\* not.
C18_ReleaseNeedPrecedence ==
    pc = "required" =>
        /\ ReleaseImagesLink(LatestReleaseName) \in Range(requires)
              <=> (ExternalSource /\ profile = "")
        /\ profile # "" =>
              /\ \A k \in 1..Len(envForProfile) :
                    [link |-> "parameter", name |-> envForProfile[k]] \in Range(requires)
              /\ ReleaseImagesLink(LatestReleaseName) \notin Range(requires)
        /\ profile = "" =>
              \A k \in 1..Len(requires) : requires[k].link # "parameter"

C18_Witness ==
    /\ pc = "required"
    /\ profile # ""
    /\ ExternalSource
    /\ Len(AllSteps) = 3
    /\ Cardinality(internalLinks) = 2
    /\ ReleaseImagesLink(LatestReleaseName) \notin Range(requires)

(* ---- C19 ------------------------------------------------------------------ *)

\* Pre or Test returned an error
EarlierPhaseFailed == ReturnedError("pre") \/ ReturnedError("test")

\* Post is told of an earlier failure exactly when Pre or Test returned an error
PostToldOfFailure ==
    generated["post"].called => (generated["post"].hasPrevErrs <=> EarlierPhaseFailed)

\* C19 as stated: Post is told of an earlier failure exactly when Pre or Test returned
\* an error, so with the skip flag of the test set an optional-on-success Post step
\* gives a pod exactly in the runs where Pre or Test returned an error.
C19_OptionalPostPodIffFailure ==
    /\ PostToldOfFailure
    /\ (generated["post"].called /\ allowSkipOnSuccess = "true") =>
          \A k \in OptionalSteps("post") : InBatch("post", k) <=> EarlierPhaseFailed

\* C19 amended: Post is told of an earlier failure exactly when Pre or Test returned
\* an error of any kind, so with the skip flag of the test set an optional-on-success
\* Post step is built exactly in the runs where Pre or Test returned an error, and
\* gives a pod there unless its build fails.
C19_OptionalPostBuiltIffFailure ==
    /\ PostToldOfFailure
    /\ (generated["post"].called /\ allowSkipOnSuccess = "true") =>
          \A k \in OptionalSteps("post") :
              /\ (InBatch("post", k) \/ HasBuildError("post", k)) <=> EarlierPhaseFailed
              /\ InBatch("post", k) <=>
                    (EarlierPhaseFailed /\ post[k].As \notin generated["post"].failing)

C19_Witness ==
    /\ generated["post"].called
    /\ allowSkipOnSuccess = "true"
    /\ OptionalSteps("post") = {1}
    /\ InBatch("post", 1)
    /\ HasKind(PhaseError("test"), "cancelled")
    /\ ~HasKind(PhaseError("test"), "pods")

(* ---- C20 ------------------------------------------------------------------ *)

\* C20: whenever Test is executed Pre returned no error and the flag Test receives is
\* false, so with the skip flag of the test set every optional-on-success Test step
\* is skipped: it is neither built nor in the batch.
C20_TestNeverToldOfFailure ==
    generated["test"].called =>
        /\ ~generated["test"].hasPrevErrs
        /\ ~ReturnedError("pre")
        /\ allowSkipOnSuccess = "true" =>
              \A k \in OptionalSteps("test") :
                  /\ ~InBatch("test", k)
                  /\ ~HasBuildError("test", k)
                  /\ test[k].As \notin generated["test"].failing

C20_Witness ==
    /\ generated["test"].called
    /\ allowSkipOnSuccess = "true"
    /\ Len(test) = 2
    /\ OptionalSteps("test") = {2}
    /\ Names(generated["test"].ret) = <<TestName \o "-test1">>
    /\ Len(SubmittedOf("pre")) = 1

(* ---- C21 ------------------------------------------------------------------ *)

\* generatePods returned an error for phase p
BuildFailed(p) == generated[p].called /\ generated[p].err # Nil

\* the bulk deletes runSteps issued for phase p
BulkDeletesOf(p) == SelectSeq(bulkDeletes, LAMBDA d : d.phase = p)

\* C21: if generatePods returns an error for a phase, runSteps returns that very error
\* at once: run() records it as the error of the phase, none of the pods built for the
\* phase is submitted or waited for, and the select of the phase is not reached, so
\* no bulk delete is issued for it and no "cancelled" error is added.
C21_BuildFailureFailsPhase ==
    \A p \in Phases :
        BuildFailed(p) =>
            /\ PhaseError(p) = generated[p].err
            /\ phase # p \/ pc = "done"
            /\ SubmittedOf(p) = <<>>
            /\ \A k \in 1..Len(waited) : waited[k].pod \notin PodNames(p)
            /\ BulkDeletesOf(p) = <<>>
            /\ ~HasKind(PhaseError(p), "cancelled")

C21_Witness ==
    /\ BuildFailed("pre")
    /\ generated["pre"].ret # <<>>
    /\ cancelled
    /\ cancelPhase = "pre"
    /\ pc = "done"

(* ---- C22 ------------------------------------------------------------------ *)

\* some phase returned a "cancelled" error
CancelledReported == \E k \in 1..Len(errs) : HasKind(errs[k].err, "cancelled")

\* without a cancellation of the caller's context there is no bulk delete and no
\* "cancelled" error, and a bulk delete belongs to Pre or Test
BulkDeleteOnlyByCancellation ==
    /\ ~cancelled => (bulkDeletes = <<>> /\ ~CancelledReported)
    /\ \A k \in 1..Len(bulkDeletes) : bulkDeletes[k].phase \in {"pre", "test"}

\* a bulk delete is issued at the select that ends Pre or Test, before Post is
\* started, and no step removes a pod of Post from the cluster
BulkDeleteBeforePost ==
    /\ bulkDeletes' # bulkDeletes =>
          /\ pc = "select"
          /\ phase \in {"pre", "test"}
          /\ cancelled
          /\ ~generated["post"].called
          /\ SubmittedOf("post") = <<>>
    /\ \A n \in DOMAIN clusterPods \cap PodNames("post") : n \in DOMAIN clusterPods'

\* C22: the bulk delete of labelled pods is issued only because of a cancellation: in
\* a run whose caller never cancels, no bulk delete is issued and no "cancelled" error
\* is reported; in any run the bulk delete is issued only at the end of Pre or Test,
\* never during or after Post, so the pods Post submits afterwards are not removed.
C22_BulkDeleteOnlyOnCancel == []BulkDeleteOnlyByCancellation /\ [][BulkDeleteBeforePost]_vars

C22_Witness ==
    /\ pc = "done"
    /\ Len(bulkDeletes) = 1
    /\ bulkDeletes[1].phase = "test"
    /\ SubmittedOf("post") # <<>>
    /\ PodNames("post") \subseteq Labelled(clusterPods)

====
